---- MODULE Spec2Model ----
(***************************************************************************)
(* Model of thermal_seat_finder.py: the main loop that reads one sensor    *)
(* frame per cycle, validates header and checksum, decodes and scans the   *)
(* temperature grid, pulses the vibration motor (debounced) and renders    *)
(* the overlay pushed to the LCD.                                          *)
(*                                                                         *)
(* Temperatures are kept in hundredths of a degree (the raw 16-bit word):  *)
(* temp_c = raw / 100.0 is strictly increasing in raw and 100*k/100.0 = k  *)
(* exactly, so every comparison of the source is the same comparison on    *)
(* hundredths.  Deg(d) is d degrees in hundredths.                         *)
(*                                                                         *)
(* The sensor grid is scaled down (SENSOR_WIDTH x SENSOR_HEIGHT), and the  *)
(* frame layout follows it: 4 header bytes, 2 bytes per pixel, 2 unused    *)
(* bytes, 2 checksum bytes (1544 = 4 + 2*768 + 2 + 2 in the source).       *)
(***************************************************************************)
EXTENDS Integers, Sequences, FiniteSets

VARIABLES
    pc,               \* position in the loop body
    clock,            \* time.ticks_ms(), in ms
    frame,            \* bytes returned by com.read, <<>> when unbound
    temps,            \* decoded temperatures so far (hundredths)
    idx,              \* scan index
    min_temp,         \* running minimum (hundredths)
    max_temp,         \* running maximum (hundredths)
    max_pos,          \* <<x, y>> of the hottest pixel, <<>> for None
    person_detected,  \* occupancy flag of the cycle
    machine_temp,     \* sensor self temperature (hundredths)
    now,              \* ticks read in the vibration step
    last_vibration,   \* ticks of the last vibration (or of start-up)
    vibration_motor,  \* GPIO output, 0 or 1
    img,              \* image built by the cycle, <<>> when unbound:
                      \* [pix, center, marker]
    \* ---- history (not read by the program) ----
    outcome,          \* how the current / last cycle ended
    steps,            \* steps executed in the current / last cycle
    sent,             \* frame the sensor sent, before line corruption
    corruption,       \* what the line did to it
    lv0,              \* last_vibration at the start of the cycle
    lcd,              \* images pushed to the LCD in the current / last cycle
    pulses,           \* pulses started since start-up
    occ               \* the last two occupancy cycles: [t, pulsed]

vars == <<pc, clock, frame, temps, idx, min_temp, max_temp, max_pos,
          person_detected, machine_temp, now, last_vibration,
          vibration_motor, img, outcome, steps, sent, corruption,
          lv0, lcd, pulses, occ>>

----------------------------------------------------------------------------
(* Configuration constants *)

START_FLAG == 90
SENSOR_WIDTH == 2
SENSOR_HEIGHT == 2
LCD_W == 160
LCD_H == 120
MAX_TEMP_LIMIT == 300
MIN_TEMP_LIMIT == 0
PERSON_TEMP_THRESHOLD == 30
VIBRATION_INTERVAL_MS == 500
PULSE_MS == 100

Deg(d) == d * 100

NumPixels == SENSOR_WIDTH * SENSOR_HEIGHT
FrameLen == 4 + 2 * NumPixels + 4

None == <<>>

----------------------------------------------------------------------------
(* Bytes and words *)

ByteAt(f, i) == f[i + 1]

WordAt(f, i) == ByteAt(f, i + 1) * 256 + ByteAt(f, i)

\* Mutant: the running sum masked with 0x7FFF.
RECURSIVE ChecksumMask15(_, _, _)
ChecksumMask15(f, i, acc) ==
    IF i >= Len(f) - 2 THEN acc
    ELSE ChecksumMask15(f, i + 2, (acc + WordAt(f, i)) % 32768)

\* Mutant: the loop stops one word early, range(0, 1540, 2).
RECURSIVE ChecksumShort(_, _, _)
ChecksumShort(f, i, acc) ==
    IF i >= Len(f) - 4 THEN acc
    ELSE ChecksumShort(f, i + 2, (acc + WordAt(f, i)) % 65536)

\* Lines 68-71
RECURSIVE ChecksumFrom(_, _, _)
ChecksumFrom(f, i, acc) ==
    IF i >= Len(f) - 2 THEN acc
    ELSE ChecksumFrom(f, i + 2, (acc + WordAt(f, i)) % 65536)

Checksum(f) == ChecksumFrom(f, 0, 0)

RecvSum(f) == ByteAt(f, Len(f) - 1) * 256 + ByteAt(f, Len(f) - 2)

\* Mutant: only the first header byte is compared.
HeaderBadFirstOnly(f) == ByteAt(f, 0) # START_FLAG

\* Line 60
HeaderBad(f) == ByteAt(f, 0) # START_FLAG \/ ByteAt(f, 1) # START_FLAG

\* Mutant: the two bytes of a pixel read big-endian.
DecodePixelBigEndian(f, i) ==
    ByteAt(f, 4 + i * 2) * 256 + ByteAt(f, 4 + i * 2 + 1)

\* Lines 86-87
DecodePixel(f, i) == WordAt(f, 4 + i * 2)

\* Mutant: the two bytes before the checksum, frame[-4:-2].
MachineTempSpare(f) == WordAt(f, Len(f) - 4)

\* Lines 101-102: frame[-2:]
MachineTemp(f) == WordAt(f, Len(f) - 2)

Max2(a, b) == IF a >= b THEN a ELSE b
Min2(a, b) == IF a <= b THEN a ELSE b

----------------------------------------------------------------------------
(* f"{t:.1f}": a temperature in hundredths printed with one decimal, as   *)
(* tenths.  t/100.0 is a binary double, so a final digit 5 is rounded by   *)
(* the side on which the double lies; that side depends on the binade of   *)
(* the value and on t mod 100 (an exactly representable tie, .25 or .75,   *)
(* goes to the even digit).                                                *)

RECURSIVE Binade(_, _)
Binade(t, k) == IF 200 * (2 ^ k) > t THEN k ELSE Binade(t, k + 1)

RoundsUp(t) ==
    IF t < 100 THEN t \in {5, 45, 55, 65, 75}
    ELSE LET r == t % 100
             b == Binade(t, 0) % 4
         IN  CASE b = 0 -> r \in {5, 35, 55, 75, 85}
               [] b = 1 -> r \in {35, 45, 75, 85, 95}
               [] b = 2 -> r \in {15, 45, 65, 75, 95}
               [] b = 3 -> r \in {5, 15, 55, 65, 75}

Format1(t) ==
    IF t % 10 # 5 THEN (t + 5) \div 10
    ELSE (t \div 10) + (IF RoundsUp(t) THEN 1 ELSE 0)

----------------------------------------------------------------------------
(* Inputs: what the sensor sends and what the line does to it *)

Lo(w) == w % 256
Hi(w) == w \div 256

RECURSIVE GridBytes(_)
GridBytes(g) ==
    IF g = <<>> THEN <<>>
    ELSE <<Lo(Head(g)), Hi(Head(g))>> \o GridBytes(Tail(g))

Body(len, g, spare) ==
    <<START_FLAG, START_FLAG, Lo(len), Hi(len)>> \o GridBytes(g)
        \o <<Lo(spare), Hi(spare)>>

\* The sum of the little-endian words of a byte sequence of even length,
\* as the sensor computes it: low bytes and high bytes summed apart.
RECURSIVE SumLow(_)
SumLow(b) == IF Len(b) < 2 THEN 0 ELSE b[1] + SumLow(Tail(Tail(b)))

RECURSIVE SumHigh(_)
SumHigh(b) == IF Len(b) < 2 THEN 0 ELSE b[2] + SumHigh(Tail(Tail(b)))

WordSum(b) == (SumLow(b) + 256 * SumHigh(b)) % 65536

\* A well-formed frame: sentinel header and the checksum of its body.
MkFrame(len, g, spare) ==
    LET b == Body(len, g, spare)
        s == WordSum(b)
    IN  b \o <<Lo(s), Hi(s)>>

PixelVals == {0, 2500, 2600, 3500, 35000, 40000}

Uniform(v) == [i \in 1..NumPixels |-> v]

Put(g, i, v) == [g EXCEPT ![i] = v]

\* Grids with at most two pixels off a uniform background.
Grids ==
    {Put(Put(Uniform(b), i, v), j, w) :
        b \in PixelVals, i \in 1..NumPixels, v \in PixelVals,
        j \in 1..NumPixels, w \in PixelVals}

GoodFrames ==
    {MkFrame(0, g, 4660) : g \in Grids}
        \cup {MkFrame(2 * NumPixels, g, 0) : g \in Grids}

FlipBit(b, k) ==
    IF (b \div (2 ^ k)) % 2 = 1 THEN b - 2 ^ k ELSE b + 2 ^ k

SetByte(f, i, b) == [f EXCEPT ![i + 1] = b]

SetSum(f, s) ==
    SetByte(SetByte(f, Len(f) - 2, Lo(s)), Len(f) - 1, Hi(s))

\* corruption: <<"none">>, <<"flip", byte, bit>>, or
\* <<"header", b0, b1, resum>>: header bytes replaced, the checksum
\* recomputed over the new bytes when resum.
Corrupt(f, c) ==
    CASE c[1] = "none" -> f
      [] c[1] = "flip" -> SetByte(f, c[2], FlipBit(ByteAt(f, c[2]), c[3]))
      [] c[1] = "header" ->
            LET h == SetByte(SetByte(f, 0, c[2]), 1, c[3])
            IN  IF c[4] THEN SetSum(h, WordSum(SubSeq(h, 1, Len(h) - 2)))
                ELSE h

NoCorruption == {<<"none">>}

Flips == {<<"flip", p, k>> : p \in 0..(FrameLen - 1), k \in 0..7}

HeaderBytes == {0, START_FLAG, 91}

BadHeaders ==
    {<<"header", b0, b1, r>> : b0 \in HeaderBytes, b1 \in HeaderBytes,
                               r \in BOOLEAN}

\* A read that returns nothing (None) or fewer bytes than asked for.
ShortReads == {<<>>, <<START_FLAG>>, <<START_FLAG, START_FLAG, 0>>}

\* Frames of the timing specification: a cold grid, a warm grid.
ColdGrid == Uniform(2500)
WarmGrid == Put(Uniform(2500), NumPixels, 3500)
LoopFrames == {MkFrame(0, ColdGrid, 0), MkFrame(0, WarmGrid, 0)}
LoopCorruptions ==
    {<<"none">>, <<"flip", 5, 0>>, <<"header", 0, 0, TRUE>>}

\* Frames whose every single-bit corruption is explored.
FlipBases ==
    {MkFrame(0, ColdGrid, 0), MkFrame(2 * NumPixels, WarmGrid, 4660),
     MkFrame(0, Uniform(40000), 65535)}

Gaps == {100, 400, 500, 600}
MaxTime == 1300
FrameGaps == {600}
FrameMaxTime == 600

----------------------------------------------------------------------------
Init ==
    /\ pc = "poll"
    /\ clock = 0
    /\ frame = None
    /\ temps = None
    /\ idx = 0
    /\ min_temp = 0
    /\ max_temp = 0
    /\ max_pos = None
    /\ person_detected = FALSE
    /\ machine_temp = 0
    /\ now = 0
    /\ last_vibration = 0
    /\ vibration_motor = 0
    /\ img = None
    /\ outcome = "none"
    /\ steps = <<>>
    /\ sent = None
    /\ corruption = <<"none">>
    /\ lv0 = 0
    /\ lcd = <<>>
    /\ pulses = 0
    /\ occ = <<>>

----------------------------------------------------------------------------
(* The loop body.  Names bound inside the body (frame, temps, idx,       *)
(* min_temp, max_temp, max_pos, person_detected, machine_temp, now, img)  *)
(* are all assigned before they are read in the next iteration; when an   *)
(* iteration ends they are set back to their initial values here, which   *)
(* no later step can observe.                                             *)

Unbind ==
    /\ frame' = None
    /\ temps' = None
    /\ idx' = 0
    /\ min_temp' = 0
    /\ max_temp' = 0
    /\ max_pos' = None
    /\ person_detected' = FALSE
    /\ machine_temp' = 0
    /\ now' = 0
    /\ img' = None

Locals == <<frame, temps, idx, min_temp, max_temp, max_pos,
            person_detected, machine_temp, now, img>>

Device == <<clock, last_vibration, vibration_motor>>

CycleHist == <<sent, corruption, lv0, lcd>>

\* Mutant: `break` where the source has `continue`.
ContinueBreak(o) ==
    /\ outcome' = o
    /\ pc' = "halt"
    /\ Unbind

\* `continue`: the iteration ends with the given outcome.
Continue(o) ==
    /\ outcome' = o
    /\ pc' = "poll"
    /\ Unbind

\* Line 50: com.any()
Poll ==
    /\ pc = "poll"
    /\ \E any \in BOOLEAN :
          /\ steps' = <<"poll">>
          /\ sent' = None
          /\ corruption' = <<"none">>
          /\ lv0' = last_vibration
          /\ lcd' = <<>>
          /\ IF any
             THEN /\ pc' = "read"
                  /\ outcome' = "Pending"
                  /\ UNCHANGED Locals
             ELSE Continue("NoData")
    /\ UNCHANGED <<Device, pulses, occ>>

\* Lines 54-57: frame = com.read(1544), r being what the read returns
Read(r) ==
    /\ steps' = Append(steps, "read")
    /\ IF r = None \/ Len(r) # FrameLen
       THEN Continue("IncompleteFrame")
       ELSE /\ frame' = r
            /\ pc' = "header"
            /\ UNCHANGED <<temps, idx, min_temp, max_temp, max_pos,
                           person_detected, machine_temp, now, img, outcome>>

ReadFrame(Bases, Cors) ==
    /\ pc = "read"
    /\ \/ \E r \in ShortReads :
             /\ Read(r)
             /\ UNCHANGED <<sent, corruption>>
       \/ \E f \in Bases, c \in Cors :
             /\ Read(Corrupt(f, c))
             /\ sent' = f
             /\ corruption' = c
    /\ UNCHANGED <<Device, lv0, lcd, pulses, occ>>

\* Lines 60-62: header flags
CheckHeader ==
    /\ pc = "header"
    /\ steps' = Append(steps, "header")
    /\ IF HeaderBad(frame)
       THEN Continue("InvalidHeader")
       ELSE /\ pc' = "checksum"
            /\ UNCHANGED <<Locals, outcome>>
    /\ UNCHANGED <<Device, CycleHist, pulses, occ>>

\* Lines 65-77: checksum verification
VerifyChecksum ==
    /\ pc = "checksum"
    /\ steps' = Append(steps, "checksum")
    /\ IF Checksum(frame) # RecvSum(frame)
       THEN Continue("ChecksumMismatch")
       ELSE /\ pc' = "parse"
            /\ UNCHANGED <<Locals, outcome>>
    /\ UNCHANGED <<Device, CycleHist, pulses, occ>>

\* Mutant: the two initial values swapped.
InitScanSwapped ==
    /\ pc = "parse"
    /\ temps' = <<>>
    /\ min_temp' = Deg(MIN_TEMP_LIMIT)
    /\ max_temp' = Deg(MAX_TEMP_LIMIT)
    /\ max_pos' = None
    /\ person_detected' = FALSE
    /\ idx' = 0
    /\ pc' = "scan"
    /\ steps' = Append(steps, "scan")
    /\ UNCHANGED <<frame, machine_temp, now, img, outcome, Device,
                   CycleHist, pulses, occ>>

\* Lines 80-83
InitScan ==
    /\ pc = "parse"
    /\ temps' = <<>>
    /\ min_temp' = Deg(MAX_TEMP_LIMIT)
    /\ max_temp' = Deg(MIN_TEMP_LIMIT)
    /\ max_pos' = None
    /\ person_detected' = FALSE
    /\ idx' = 0
    /\ pc' = "scan"
    /\ steps' = Append(steps, "scan")
    /\ UNCHANGED <<frame, machine_temp, now, img, outcome, Device,
                   CycleHist, pulses, occ>>

NewMin(temp_c, mn) ==
    IF temp_c < mn THEN Max2(temp_c, Deg(MIN_TEMP_LIMIT)) ELSE mn

IsNewMax(temp_c, mx) == temp_c > mx

\* Mutant: the assignment of line 94 outside the test of line 93.
NewMaxAlways(temp_c, mx) == Min2(temp_c, Deg(MAX_TEMP_LIMIT))

\* Mutant: the new maximum stored without the ceiling.
NewMaxUnclamped(temp_c, mx) == IF IsNewMax(temp_c, mx) THEN temp_c ELSE mx

\* Lines 93-94
NewMax(temp_c, mx) ==
    IF IsNewMax(temp_c, mx) THEN Min2(temp_c, Deg(MAX_TEMP_LIMIT)) ELSE mx

PosOf(i) == <<i % SENSOR_WIDTH, i \div SENSOR_WIDTH>>

\* Lines 85-98: one pixel of the scan
ScanPixel ==
    /\ pc = "scan"
    /\ idx < NumPixels
    /\ LET temp_c == DecodePixel(frame, idx)
       IN  /\ temps' = Append(temps, temp_c)
           /\ min_temp' = NewMin(temp_c, min_temp)
           /\ max_temp' = NewMax(temp_c, max_temp)
           /\ max_pos' = IF IsNewMax(temp_c, max_temp)
                         THEN PosOf(idx) ELSE max_pos
           /\ person_detected' =
                 IF IsNewMax(temp_c, max_temp)
                    /\ temp_c > Deg(PERSON_TEMP_THRESHOLD)
                 THEN TRUE ELSE person_detected
    /\ idx' = idx + 1
    /\ UNCHANGED <<pc, frame, machine_temp, now, img, outcome, steps,
                   Device, CycleHist, pulses, occ>>

\* Lines 100-103: sensor board temperature
SelfTemp ==
    /\ pc = "scan"
    /\ idx = NumPixels
    /\ machine_temp' = MachineTemp(frame)
    /\ pc' = "alert"
    /\ UNCHANGED <<frame, temps, idx, min_temp, max_temp, max_pos,
                   person_detected, now, img, outcome, steps, Device,
                   CycleHist, pulses, occ>>

\* time.ticks_diff, for readings less than half a tick period apart
TicksDiff(a, b) == a - b

\* Mutant: no cooldown at all.
CooldownOff(t, last) == TRUE

\* Mutant: a gap of exactly the interval already triggers.
CooldownInclusive(t, last) == TicksDiff(t, last) >= VIBRATION_INTERVAL_MS

\* Line 108
CooldownOver(t, last) == TicksDiff(t, last) > VIBRATION_INTERVAL_MS

LastTwo(s) == IF Len(s) > 2 THEN Tail(s) ELSE s

\* Mutant: an occupancy signal inside the cooldown restarts the cooldown.
AlertExtendsWindow ==
    /\ pc = "alert"
    /\ steps' = Append(steps, "alert")
    /\ IF person_detected
       THEN /\ now' = clock
            /\ occ' = LastTwo(Append(occ,
                         [t |-> clock,
                          pulsed |-> CooldownOver(clock, last_vibration)]))
            /\ IF CooldownOver(clock, last_vibration)
               THEN /\ vibration_motor' = 1
                    /\ pulses' = pulses + 1
                    /\ pc' = "pulse"
                    /\ UNCHANGED last_vibration
               ELSE /\ pc' = "render"
                    /\ last_vibration' = clock
                    /\ UNCHANGED <<vibration_motor, pulses>>
       ELSE /\ pc' = "render"
            /\ UNCHANGED <<now, occ, vibration_motor, pulses, last_vibration>>
    /\ UNCHANGED <<frame, temps, idx, min_temp, max_temp, max_pos,
                   person_detected, machine_temp, img, outcome, clock,
                   CycleHist>>

\* Lines 106-109: vibration feedback, up to the motor being switched on
Alert ==
    /\ pc = "alert"
    /\ steps' = Append(steps, "alert")
    /\ IF person_detected
       THEN /\ now' = clock
            /\ occ' = LastTwo(Append(occ,
                         [t |-> clock,
                          pulsed |-> CooldownOver(clock, last_vibration)]))
            /\ IF CooldownOver(clock, last_vibration)
               THEN /\ vibration_motor' = 1
                    /\ pulses' = pulses + 1
                    /\ pc' = "pulse"
               ELSE /\ pc' = "render"
                    /\ UNCHANGED <<vibration_motor, pulses>>
       ELSE /\ pc' = "render"
            /\ UNCHANGED <<now, occ, vibration_motor, pulses>>
    /\ UNCHANGED <<frame, temps, idx, min_temp, max_temp, max_pos,
                   person_detected, machine_temp, img, outcome, clock,
                   last_vibration, CycleHist>>

\* Mutant: the motor is never switched off.
PulseStaysOn ==
    /\ pc = "pulse"
    /\ clock' = clock + PULSE_MS
    /\ last_vibration' = now
    /\ pc' = "render"
    /\ UNCHANGED <<Locals, vibration_motor, outcome, steps, CycleHist,
                   pulses, occ>>

\* Lines 110-113: hold the pulse, switch the motor off, restart the cooldown
Pulse ==
    /\ pc = "pulse"
    /\ clock' = clock + PULSE_MS
    /\ vibration_motor' = 0
    /\ last_vibration' = now
    /\ pc' = "render"
    /\ UNCHANGED <<Locals, outcome, steps, CycleHist, pulses, occ>>

CenterIdx == SENSOR_WIDTH * (SENSOR_HEIGHT \div 2) + (SENSOR_WIDTH \div 2)

\* Mutant: one hundredth of a degree added instead of one degree.
SpanMaxHundredth(mn, mx) == IF mx = mn THEN mn + 1 ELSE mx

\* Lines 117-118
SpanMax(mn, mx) == IF mx = mn THEN mn + Deg(1) ELSE mx

\* Lines 139-145: marker and label of the hottest pixel
Marker(pos, mx) ==
    IF pos # None
    THEN <<(LCD_W * pos[1]) \div SENSOR_WIDTH,
           (LCD_H * pos[2]) \div SENSOR_HEIGHT,
           Format1(mx)>>
    ELSE None

RECURSIVE GCD(_, _)
GCD(a, b) == IF b = 0 THEN a ELSE GCD(b, a % b)

RECURSIVE IsPow2(_)
IsPow2(n) == n = 1 \/ (n > 1 /\ n % 2 = 0 /\ IsPow2(n \div 2))

\* Hundredths whose value in degrees is a binary double exactly.
ExactDouble(t) == t % 25 = 0

\* Lines 122-123 compute (t - mn) / (mx - mn) * 255 in binary doubles and
\* truncate.  The truncation is that of the exact quotient unless the
\* exact quotient is an integer, where the rounded double may lie just
\* below it; it does not when the pixel is the minimum or when the operands
\* and their ratio are exact doubles.
NormExact(t, mn, mx) ==
    \/ ((t - mn) * 255) % (mx - mn) # 0
    \/ t = mn
    \/ /\ ExactDouble(t) /\ ExactDouble(mn) /\ ExactDouble(mx)
       /\ IsPow2((mx - mn) \div GCD(t - mn, mx - mn))

NormVal(t, mn, mx, below) ==
    LET q == ((t - mn) * 255) \div (mx - mn)
    IN  IF ~NormExact(t, mn, mx) /\ below THEN q - 1 ELSE q

\* Lines 116-150: build the image and its overlays
Render ==
    /\ pc = "render"
    /\ steps' = Append(steps, "render")
    /\ max_temp' = SpanMax(min_temp, max_temp)
    /\ \E below \in [{temps[i] : i \in 1..Len(temps)} -> BOOLEAN] :
          img' = [pix |-> [i \in 1..Len(temps) |->
                             NormVal(temps[i], min_temp, max_temp',
                                     below[temps[i]])],
                  center |-> Format1(temps[CenterIdx + 1]),
                  marker |-> Marker(max_pos, max_temp')]
    /\ pc' = "display"
    /\ UNCHANGED <<frame, temps, idx, min_temp, max_pos, person_detected,
                   machine_temp, now, outcome, Device, CycleHist, pulses,
                   occ>>

\* Mutant: the push indented into the `if max_pos:` block.
DisplayIfMarked ==
    /\ pc = "display"
    /\ steps' = Append(steps, "display")
    /\ lcd' = IF max_pos # None THEN Append(lcd, img) ELSE lcd
    /\ pc' = "cleanup"
    /\ UNCHANGED <<Locals, Device, outcome, sent, corruption, lv0, pulses,
                   occ>>

\* Line 153: lcd.display(img)
Display ==
    /\ pc = "display"
    /\ steps' = Append(steps, "display")
    /\ lcd' = Append(lcd, img)
    /\ pc' = "cleanup"
    /\ UNCHANGED <<Locals, Device, outcome, sent, corruption, lv0, pulses,
                   occ>>

\* Lines 156-157: del temps, frame, img; gc.collect()
Cleanup ==
    /\ pc = "cleanup"
    /\ steps' = Append(steps, "cleanup")
    /\ Continue("Accepted")
    /\ UNCHANGED <<Device, CycleHist, pulses, occ>>

\* Time passing between two readings of the clock.  The clock is read in
\* the vibration step only, so the time that passes during an iteration is
\* accounted for before the iteration.
Tick(D, cap) ==
    /\ pc = "poll"
    /\ \E d \in D : /\ clock + d <= cap
                    /\ clock' = clock + d
    /\ UNCHANGED <<pc, Locals, last_vibration, vibration_motor, outcome,
                   steps, CycleHist, pulses, occ>>

\* The loop over a few frames, with time passing in steps of 100 ms.
Next ==
    \/ Poll
    \/ ReadFrame(LoopFrames, LoopCorruptions)
    \/ CheckHeader
    \/ VerifyChecksum
    \/ InitScan
    \/ ScanPixel
    \/ SelfTemp
    \/ Alert
    \/ Pulse
    \/ Render
    \/ Display
    \/ Cleanup
    \/ Tick(Gaps, MaxTime)

Spec == Init /\ [][Next]_vars

\* The loop over every grid and every single-bit corruption, with time
\* passing in one step that ends the cooldown.
NextFrames ==
    \/ Poll
    \/ ReadFrame(GoodFrames, NoCorruption)
    \/ ReadFrame(FlipBases, Flips \cup BadHeaders)
    \/ CheckHeader
    \/ VerifyChecksum
    \/ InitScan
    \/ ScanPixel
    \/ SelfTemp
    \/ Alert
    \/ Pulse
    \/ Render
    \/ Display
    \/ Cleanup
    \/ Tick(FrameGaps, FrameMaxTime)

SpecFrames == Init /\ [][NextFrames]_vars

----------------------------------------------------------------------------
(* Debounce and cooldown *)

OccGap == occ[2].t - occ[1].t

OccPulses ==
    (IF occ[1].pulsed THEN 1 ELSE 0) + (IF occ[2].pulsed THEN 1 ELSE 0)

\* C1 as stated: any two successive occupancy cycles 400 ms apart give one
\* pulse in total, and any two 600 ms apart give two.
C1_AnyTwoEvents ==
    Len(occ) = 2 =>
        /\ (OccGap = 400 => OccPulses = 1)
        /\ (OccGap = 600 => OccPulses = 2)

\* C1 amended: when the first of two successive occupancy cycles starts a
\* pulse, a second one 400 ms later starts none (one pulse in total) and a
\* second one 600 ms later starts one (two pulses in total).
C1_Debounce ==
    (Len(occ) = 2 /\ occ[1].pulsed) =>
        /\ (OccGap = 400 => OccPulses = 1)
        /\ (OccGap = 600 => OccPulses = 2)

C1_Witness ==
    /\ Len(occ) = 2
    /\ occ[1].pulsed
    /\ OccGap = 600
    /\ OccPulses = 2
    /\ pulses = 2

\* C2: the motor is switched on only in a cycle whose occupancy flag is
\* true and whose clock reading is more than 500 ms after the last trigger
\* timestamp, and the trigger timestamp only ever moves by more than 500 ms.
C2_PulseOnlyAfterCooldown ==
    [][/\ (vibration_motor' = 1 /\ vibration_motor = 0) =>
             /\ person_detected
             /\ now' = clock
             /\ now' - last_vibration > 500
       /\ (last_vibration' # last_vibration) =>
             /\ last_vibration' = now
             /\ last_vibration' - last_vibration > 500]_vars

C2_Witness ==
    /\ pulses = 2
    /\ pc = "render"
    /\ last_vibration = now
    /\ last_vibration - lv0 > 500
    /\ lv0 > 500

\* C3: a cycle whose occupancy flag is true but which falls inside the
\* cooldown window switches nothing on and leaves the trigger timestamp as
\* it was at the start of the cycle, and a cycle whose occupancy flag is
\* false never pulses.
C3_DroppedSilently ==
    /\ (/\ pc \in {"render", "display", "cleanup"}
        /\ person_detected
        /\ now - lv0 <= 500)
          => /\ last_vibration = lv0
             /\ vibration_motor = 0
             /\ ~occ[Len(occ)].pulsed
    /\ (/\ pc \in {"alert", "pulse", "render", "display", "cleanup"}
        /\ ~person_detected)
          => /\ pc # "pulse"
             /\ last_vibration = lv0
             /\ vibration_motor = 0

\* A cold cycle that follows a dropped occupancy cycle has reached render.
C3_Witness ==
    /\ pc = "render"
    /\ ~person_detected
    /\ Len(occ) = 2
    /\ occ[1].pulsed
    /\ ~occ[2].pulsed
    /\ clock - last_vibration > 500

Rejections == {"NoData", "IncompleteFrame", "InvalidHeader",
               "ChecksumMismatch"}

\* C4: a cycle that ends in NoData, IncompleteFrame, InvalidHeader or
\* ChecksumMismatch has left the trigger timestamp as it was, has not driven
\* the motor, has pushed nothing to the LCD, and the loop is at its top
\* again with the next poll enabled.
C4_RejectionsNonFatal ==
    outcome \in Rejections =>
        /\ pc = "poll"
        /\ ENABLED Poll
        /\ last_vibration = lv0
        /\ vibration_motor = 0
        /\ lcd = <<>>
        /\ ~("alert" \in {steps[i] : i \in 1..Len(steps)})

C4_Witness ==
    /\ outcome = "ChecksumMismatch"
    /\ pulses > 0
    /\ last_vibration > 0
    /\ pc = "poll"

----------------------------------------------------------------------------
(* Frame validation *)

\* The bytes the read returned in this cycle.
Wire == Corrupt(sent, corruption)

Validated == sent # None /\ pc \notin {"header", "checksum"}

Accepted ==
    \/ pc \in {"parse", "scan", "alert", "pulse", "render", "display",
               "cleanup"}
    \/ outcome = "Accepted"

SentinelOk(f) == f[1] = START_FLAG /\ f[2] = START_FLAG

TrailingWord(f) == f[Len(f) - 1] + 256 * f[Len(f)]

SumMatches(f) == WordSum(SubSeq(f, 1, Len(f) - 2)) = TrailingWord(f)

\* C5: a complete frame reaches decoding exactly when its first two bytes
\* are the sentinel and the sum modulo 65536 of the little-endian words
\* before the last two bytes equals the trailing word; the declared length
\* plays no other part.
C5_AcceptedIff ==
    Validated => (Accepted <=> (SentinelOk(Wire) /\ SumMatches(Wire)))

\* An accepted frame whose declared length is not the payload length, and
\* whose word sum has wrapped past 65535.
C5_Witness ==
    /\ pc = "parse"
    /\ WordAt(frame, 2) = 0
    /\ SumLow(SubSeq(frame, 1, FrameLen - 2))
          + 256 * SumHigh(SubSeq(frame, 1, FrameLen - 2)) > 65535

\* C6: one bit flipped outside the two header bytes of a frame that would
\* have been accepted always ends the cycle in ChecksumMismatch.
C6_SingleBitFlipRejected ==
    (/\ Validated
     /\ SentinelOk(sent) /\ SumMatches(sent)
     /\ corruption[1] = "flip"
     /\ corruption[2] >= 2)
        => outcome = "ChecksumMismatch"

\* The top bit of the last pixel word was flipped, and the cycle is over.
C6_Witness ==
    /\ Validated
    /\ SentinelOk(sent) /\ SumMatches(sent)
    /\ corruption = <<"flip", FrameLen - 5, 7>>
    /\ outcome = "ChecksumMismatch"

StepSet == {steps[i] : i \in 1..Len(steps)}

\* C7: a complete frame whose byte 0 or byte 1 is not the sentinel ends the
\* cycle in InvalidHeader whether or not its checksum matches, and the cycle
\* has run nothing after the header check.
C7_HeaderBeforeChecksum ==
    (Validated /\ ~SentinelOk(Wire)) =>
        /\ outcome = "InvalidHeader"
        /\ steps = <<"poll", "read", "header">>
        /\ lcd = <<>>
        /\ last_vibration = lv0

\* Only byte 1 is wrong and the checksum matches the bytes received.
C7_Witness ==
    /\ Validated
    /\ Wire[1] = START_FLAG
    /\ Wire[2] # START_FLAG
    /\ SumMatches(Wire)
    /\ outcome = "InvalidHeader"

----------------------------------------------------------------------------
(* Statistics of the scan and the hottest-pixel overlay *)

InCycle == pc \in {"scan", "alert", "pulse", "render", "display", "cleanup"}

ScanDone == InCycle /\ idx = NumPixels

\* C8: in every accepted cycle min_temp is never below 0 and max_temp is
\* never above 300, the equal-span adjustment and the temperature drawn at
\* the hottest pixel included.
C8_Clamped ==
    /\ InCycle => /\ min_temp >= Deg(MIN_TEMP_LIMIT)
                  /\ max_temp <= Deg(MAX_TEMP_LIMIT)
    /\ \A k \in 1..Len(lcd) :
          lcd[k].marker # None => lcd[k].marker[3] <= 10 * MAX_TEMP_LIMIT

RECURSIVE MaxOf(_)
MaxOf(g) ==
    IF Len(g) = 1 THEN g[1]
    ELSE LET m == MaxOf(Tail(g)) IN IF g[1] >= m THEN g[1] ELSE m

\* 0-based index of the first pixel holding the maximum of the grid
FirstMaxIdx(g) ==
    (CHOOSE i \in 1..Len(g) :
        /\ g[i] = MaxOf(g)
        /\ \A j \in 1..(i - 1) : g[j] # MaxOf(g)) - 1

\* C9: after the scan, a recorded hottest-pixel coordinate is that of the
\* first pixel, in row-major order, holding the maximum decoded temperature
\* of the grid.
C9_HottestIsFirstMax ==
    (ScanDone /\ max_pos # None) =>
        max_pos = <<FirstMaxIdx(temps) % SENSOR_WIDTH,
                    FirstMaxIdx(temps) \div SENSOR_WIDTH>>

\* C10: the temperature drawn next to the hottest-pixel marker is the
\* decoded temperature of the recorded pixel, printed with one decimal.
C10_LabelIsPixelTemp ==
    (pc \in {"display", "cleanup"} /\ max_pos # None) =>
        img.marker[3] =
            Format1(temps[max_pos[2] * SENSOR_WIDTH + max_pos[1] + 1])


----------------------------------------------------------------------------
(* The running statistics of the scan *)

\* C11: from one pixel of the scan to the next the running max_temp never
\* decreases and the running min_temp never increases.
C11_MonotonicStatistics ==
    [][(pc = "scan" /\ idx' = idx + 1) =>
           /\ max_temp' >= max_temp
           /\ min_temp' <= min_temp]_vars

\* The minimum fell and the maximum rose after the first pixel.
C11_Witness ==
    /\ ScanDone
    /\ min_temp < temps[1]
    /\ max_temp > temps[1]
    /\ temps[1] < Deg(MAX_TEMP_LIMIT)

\* C12: every intensity written to the grayscale image lies in [0, 255].
C12_IntensityInRange ==
    pc \in {"display", "cleanup"} =>
        \A i \in 1..NumPixels : img.pix[i] >= 0 /\ img.pix[i] <= 255

\* C13: the decoded grid, encoded again as little-endian words at offsets
\* 4 + 2i between the frame's own length field, spare word and checksum, is
\* the frame that was read: pixel i is the word at bytes [4+2i, 4+2i+2).
C13_DecodeRoundTrip ==
    ScanDone =>
        MkFrame(frame[3] + 256 * frame[4], temps,
                frame[FrameLen - 3] + 256 * frame[FrameLen - 2]) = frame

\* Two different pixels whose words have different low and high bytes.
C13_Witness ==
    /\ ScanDone
    /\ temps[1] = 2500
    /\ temps[NumPixels] = 40000
    /\ frame = sent

\* C14 as stated: the divisor is positive, the scan ends with
\* min_temp <= max_temp, and the divisor is 1 exactly when the scan ended
\* with max_temp = min_temp.
C14_SpanOneIffEqual ==
    [][(pc = "render" /\ pc' = "display") =>
           /\ min_temp <= max_temp
           /\ max_temp' - min_temp' > 0
           /\ (max_temp' - min_temp' = Deg(1) <=> max_temp = min_temp)]_vars

\* C14 amended: the divisor is positive, the scan ends with
\* min_temp <= max_temp, and when it ends with max_temp = min_temp the
\* adjustment makes max_temp = min_temp + 1.
C14_SpanPositive ==
    [][(pc = "render" /\ pc' = "display") =>
           /\ min_temp <= max_temp
           /\ min_temp' = min_temp
           /\ max_temp' - min_temp' > 0
           /\ (max_temp = min_temp => max_temp' = min_temp + Deg(1))
           /\ (max_temp # min_temp => max_temp' = max_temp)]_vars

\* A uniform grid below the ceiling has been rendered.
C14_Witness ==
    /\ pc = "display"
    /\ \A i \in 1..NumPixels : temps[i] = 2500
    /\ min_temp = 2500
    /\ max_temp = 2600

\* C15: the motor is high only while the pulse is held; it is low at the
\* top of the loop, and in rendering, at the display push and after it.
C15_MotorHighOnlyInPulse ==
    /\ vibration_motor = 1 <=> pc = "pulse"
    /\ vibration_motor \in {0, 1}
    /\ pc \in {"poll", "read", "render", "display", "cleanup"}
          => vibration_motor = 0

\* The display push of a cycle that pulsed.
C15_Witness ==
    /\ pc = "display"
    /\ last_vibration = now
    /\ last_vibration # lv0
    /\ vibration_motor = 0

StepOrder == <<"poll", "read", "header", "checksum", "scan", "alert",
               "render", "display", "cleanup">>

\* C16: the steps of a cycle run in the fixed order; the display has
\* received exactly one image when the cycle's frame was accepted and none
\* otherwise; an accepted cycle ends at the top of the loop.
C16_FixedOrderOneImage ==
    /\ Len(steps) <= Len(StepOrder)
    /\ steps = SubSeq(StepOrder, 1, Len(steps))
    /\ Len(lcd) = (IF "display" \in StepSet THEN 1 ELSE 0)
    /\ (pc = "poll" /\ outcome # "none") =>
          (Len(lcd) = 1 <=> outcome = "Accepted")
    /\ (pc = "poll" /\ sent # None) =>
          (Len(lcd) = 1 <=> (SentinelOk(Wire) /\ SumMatches(Wire)))
    /\ outcome = "Accepted" =>
          /\ pc = "poll"
          /\ steps = StepOrder
          /\ ENABLED Poll

\* An accepted cycle without a hottest pixel has ended.
C16_Witness ==
    /\ outcome = "Accepted"
    /\ pc = "poll"
    /\ Len(lcd) = 1
    /\ lcd[1].marker = None

\* C17: the self temperature is the little-endian word at [N-2, N), that
\* is the frame's checksum, whatever the two bytes at [N-4, N-2) hold.
C17_SelfTempIsChecksum ==
    pc \in {"alert", "pulse", "render", "display", "cleanup"} =>
        /\ machine_temp = TrailingWord(frame)
        /\ machine_temp = WordSum(SubSeq(frame, 1, FrameLen - 2))

\* The spare word differs from the checksum.
C17_Witness ==
    /\ pc = "alert"
    /\ frame[FrameLen - 3] + 256 * frame[FrameLen - 2] = 4660
    /\ machine_temp # 4660

\* C18: the flag set by the new-running-maximum rule is true exactly when
\* some pixel scanned so far is above the threshold.
C18_OccupancyIffAnyOver ==
    InCycle =>
        (person_detected <=>
            \E i \in 1..Len(temps) : temps[i] > Deg(PERSON_TEMP_THRESHOLD))

\* A pixel above the threshold that was not a new running maximum.
C18_Witness ==
    /\ ScanDone
    /\ person_detected
    /\ temps[1] = 40000
    /\ temps[2] = 3500

RECURSIVE MinOf(_)
MinOf(g) ==
    IF Len(g) = 1 THEN g[1]
    ELSE LET m == MinOf(Tail(g)) IN IF g[1] <= m THEN g[1] ELSE m

Clamp(t) ==
    IF t < Deg(MIN_TEMP_LIMIT) THEN Deg(MIN_TEMP_LIMIT)
    ELSE IF t > Deg(MAX_TEMP_LIMIT) THEN Deg(MAX_TEMP_LIMIT) ELSE t

\* C19: at the end of the scan min_temp and max_temp are the grid's minimum
\* and maximum clamped to [0, 300], and a hottest pixel is recorded exactly
\* when some pixel is above 0.
C19_ExtremesClamped ==
    (pc \in {"alert", "pulse", "render"} \/ (pc = "scan" /\ idx = NumPixels))
        => /\ min_temp = Clamp(MinOf(temps))
           /\ max_temp = Clamp(MaxOf(temps))
           /\ max_pos # None <=> \E i \in 1..NumPixels : temps[i] > 0

\* A grid whose minimum and maximum are both above the ceiling.
C19_Witness ==
    /\ pc = "alert"
    /\ MinOf(temps) = 35000
    /\ MaxOf(temps) = 40000
    /\ min_temp = 30000
    /\ max_temp = 30000

====
